---- MODULE Spec2Model ----
(***************************************************************************)
(* hindi_transcription.py: one invocation validates the audio path, makes  *)
(* sure ./transcribed exists, builds the whisper pipeline, transcribes the *)
(* file and writes the text to transcribed/<stem>-<YYYYMMDD-HHMMSS>.txt.   *)
(*                                                                         *)
(* Text is modelled as it is stored: a path or a printed line is a         *)
(* sequence of tokens (one-character strings, or a literal of the source   *)
(* kept whole), a transcription is a sequence of Unicode code points, and  *)
(* a file holds a sequence of bytes.                                       *)
(***************************************************************************)
EXTENDS Integers, Sequences, FiniteSets, TLC

(* ------------------------------ bounds -------------------------------- *)

\* invocations made one after the other in Spec
NumRuns == 2

\* invocation slots that may be live at the same time in SpecRace
NumProcs == 2

(* ------------------------- program constants -------------------------- *)

ChunkLengthS == 30

ModelId == "vasista22/whisper-hindi-large-v2"

TranscribedDir == <<"transcribed">>

(* ------------------------- sequences of tokens ------------------------ *)

Last(s) == s[Len(s)]

\* needle occurs in hay as a contiguous run
Contains(hay, needle) ==
    \E i \in 1..(Len(hay) - Len(needle) + 1) :
        SubSeq(hay, i, i + Len(needle) - 1) = needle

\* str.rfind, 1-based, 0 when absent
RFind(s, c) ==
    IF \E i \in 1..Len(s) : s[i] = c
    THEN CHOOSE i \in 1..Len(s) : s[i] = c /\ \A j \in (i+1)..Len(s) : s[j] # c
    ELSE 0

(* --------------------------- the input paths -------------------------- *)

SpeechWav == <<"s","p","e","e","c","h",".","w","a","v">>

MissingWav == <<"m","i","s","s","i","n","g",".","w","a","v">>

ClipsDir == <<"c","l","i","p","s">>

DatedWav ==
    <<"d","/","s","p","e","e","c","h","-","2","0","2","4","0","3","0","1",
      "-","1","0","1","5","3","0",".","v","2",".","w","a","v">>

\* what the filesystem holds at each path an invocation may be given
PathKind(path) ==
    CASE path = SpeechWav  -> "file"
      [] path = DatedWav   -> "file"
      [] path = ClipsDir   -> "dir"
      [] OTHER             -> "missing"

\* os.path.exists, which a directory satisfies too
PathExists(kind) == kind # "missing"

\* os.path.isfile
IsFile(kind) == kind = "file"

\* PurePath.name for a POSIX path without trailing separators
PathName(path) == SubSeq(path, RFind(path, "/") + 1, Len(path))

\* PurePath.stem: the name up to its last dot, unless that dot leads or ends it
Stem(path) ==
    LET name == PathName(path)
        j    == RFind(name, ".")
    IN  IF 1 < j /\ j < Len(name) THEN SubSeq(name, 1, j - 1) ELSE name

(* ----------------------------- timestamps ----------------------------- *)

DigitChars == <<"0","1","2","3","4","5","6","7","8","9">>

Digit(d) == DigitChars[d + 1]

\* %d-style zero padded decimal of width w
RECURSIVE Pad(_, _)
Pad(n, w) == IF w = 0 THEN <<>> ELSE Pad(n \div 10, w - 1) \o <<Digit(n % 10)>>

\* decimal without padding
RECURSIVE Plain(_)
Plain(n) == IF n < 10 THEN <<Digit(n)>> ELSE Plain(n \div 10) \o <<Digit(n % 10)>>

\* the fields joined without zero padding
StrftimeUnpadded(t) ==
    Plain(t.year) \o Plain(t.month) \o Plain(t.day) \o <<"-">>
        \o Plain(t.hour) \o Plain(t.minute) \o Plain(t.second)

\* strftime("%Y%m%d-%H%M%S")
Strftime(t) ==
    Pad(t.year, 4) \o Pad(t.month, 2) \o Pad(t.day, 2) \o <<"-">>
        \o Pad(t.hour, 2) \o Pad(t.minute, 2) \o Pad(t.second, 2)

\* f"{audio_filename}-{timestamp}.txt"
OutputFilename(stem, timestamp) == stem \o <<"-">> \o timestamp \o <<".txt">>

\* os.path.join("transcribed", output_filename), POSIX, relative second part
OutputPath(filename) == TranscribedDir \o <<"/">> \o filename

(* -------------------------------- UTF-8 ------------------------------- *)

IsSurrogate(c) == 55296 <= c /\ c <= 57343

Utf8Char(c) ==
    IF c < 128 THEN <<c>>
    ELSE IF c < 2048 THEN <<192 + (c \div 64), 128 + (c % 64)>>
    ELSE IF c < 65536
         THEN <<224 + (c \div 4096), 128 + ((c \div 64) % 64), 128 + (c % 64)>>
    ELSE <<240 + (c \div 262144), 128 + ((c \div 4096) % 64),
           128 + ((c \div 64) % 64), 128 + (c % 64)>>

\* os.linesep
LineSep == <<10>>

\* TextIOWrapper(newline=None) writes each "\n" as os.linesep
RECURSIVE Utf8Encode(_)
Utf8Encode(cps) ==
    IF cps = <<>> THEN <<>>
    ELSE (IF Head(cps) = 10 THEN LineSep ELSE Utf8Char(Head(cps)))
             \o Utf8Encode(Tail(cps))

\* open(path, "w", encoding="utf-8") with the default errors="strict"
Encodable(cps) == \A i \in 1..Len(cps) : ~IsSurrogate(cps[i])

\* the text followed by a line feed, as print would write it
FileBytesWithNewline(cps) == Utf8Encode(cps \o <<10>>)

\* what f.write(transcription) leaves in the file once it is closed
FileBytes(cps) == Utf8Encode(cps)

\* the directory emptied before the new file is made
ReplaceDirectoryContents(fs, path) == (path :> <<>>)

\* open(path, "w"): the file is created, or truncated if it exists
CreateOrTruncate(fs, path) == (path :> <<>>) @@ fs

(* --------------------------- Python values ---------------------------- *)

PyStr(cps) == [type |-> "str", cps |-> cps]

PyNone == [type |-> "NoneType", cps |-> <<>>]

\* an exception object; desc is str(e)
Exc(type, desc) == [type |-> type, desc |-> desc]

\* the class each exception class derives from
BaseOf(type) ==
    CASE type = "FileNotFoundError"  -> "OSError"
      [] type = "FileExistsError"    -> "OSError"
      [] type = "PermissionError"    -> "OSError"
      [] type = "NotADirectoryError" -> "OSError"
      [] type = "OSError"            -> "Exception"
      [] type = "KeyError"           -> "LookupError"
      [] type = "LookupError"        -> "Exception"
      [] type = "UnicodeEncodeError" -> "ValueError"
      [] type = "ValueError"         -> "Exception"
      [] type = "TypeError"          -> "Exception"
      [] type = "RuntimeError"       -> "Exception"
      [] OTHER                       -> "BaseException"

RECURSIVE IsInstance(_, _)
IsInstance(type, cls) ==
    \/ type = cls
    \/ type # "BaseException" /\ IsInstance(BaseOf(type), cls)

(* ------------------------ what the world supplies --------------------- *)

\* local wall-clock readings of datetime.now()
Jan12 == [year |-> 2024, month |-> 1, day |-> 12,
          hour |-> 10, minute |-> 15, second |-> 30]

Nov02 == [year |-> 2024, month |-> 11, day |-> 2,
          hour |-> 10, minute |-> 15, second |-> 30]

\* errors the third-party calls may raise
ModelLoadError == Exc("OSError", <<"Can't load the model">>)

MissingFileInside ==
    Exc("FileNotFoundError", <<"[Errno 2] No such file or directory: 'ffmpeg'">>)

\* the pipeline's result dictionaries
TextResult(cps) == [text |-> PyStr(cps)]

NoneTextResult == [text |-> PyNone]

ChunksOnlyResult == [chunks |-> PyNone]

\* transcriptions: silence, a Devanagari letter, an ASCII line, a lone surrogate
Texts == { <<>>, <<2344>>, <<97, 10>>, <<55296>> }

World ==
    [ args         |-> {SpeechWav, DatedWav, MissingWav, ClipsDir},
      cuda         |-> BOOLEAN,
      errors       |-> {ModelLoadError, MissingFileInside},
      results      |-> {TextResult(t) : t \in Texts} \cup {NoneTextResult}
                          \cup {ChunksOnlyResult},
      times        |-> {Jan12, Nov02},
      openErrors   |-> {Exc("PermissionError",
                            <<"[Errno 13] Permission denied">>)},
      flushErrors  |-> {Exc("OSError", <<"[Errno 28] No space left on device">>)},
      printErrors  |-> {Exc("UnicodeEncodeError",
                            <<"'charmap' codec can't encode character">>)},
      maxRuns      |-> NumRuns ]

\* the same program with fewer inputs, for several invocations at once
RaceWorld ==
    [ args         |-> {SpeechWav, MissingWav},
      cuda         |-> {FALSE},
      errors       |-> {ModelLoadError},
      results      |-> {TextResult(<<2344>>)},
      times        |-> {Jan12},
      openErrors   |-> {Exc("PermissionError",
                            <<"[Errno 13] Permission denied">>)},
      flushErrors  |-> {Exc("OSError", <<"[Errno 28] No space left on device">>)},
      printErrors  |-> {Exc("UnicodeEncodeError",
                            <<"'charmap' codec can't encode character">>)},
      maxRuns      |-> NumProcs ]

(* -------------------------------- state ------------------------------- *)

VARIABLES
    dirKind,        \* ./transcribed: "absent", "dir" or "file"
    files,          \* path |-> bytes, the files under ./transcribed
    runs,           \* invocations started so far
    written,        \* the invocations that ended with exit code 0
    pc,             \* where each invocation is
    arg,            \* args.audio_file
    out,            \* the lines printed
    exitCode,       \* <<>> while running
    exc,            \* <<e>> once an exception propagates
    failedAt,       \* the step that raised it
    calls,          \* the steps performed, in order
    device, pipe, result, transcription, clock, timestamp, output_path,
    fs0             \* dirKind and files when the invocation started

fsVars == <<dirKind, files>>

locals == <<device, pipe, result, transcription, clock, timestamp, output_path>>

vars == <<dirKind, files, runs, written, pc, arg, out, exitCode, exc, failedAt,
          calls, device, pipe, result, transcription, clock, timestamp,
          output_path, fs0>>

Procs == DOMAIN pc

InitWith(procs, kinds) ==
    /\ dirKind \in kinds
    /\ files = <<>>
    /\ runs = 0
    /\ written = {}
    /\ pc = [p \in procs |-> "idle"]
    /\ arg = [p \in procs |-> <<>>]
    /\ out = [p \in procs |-> <<>>]
    /\ exitCode = [p \in procs |-> <<>>]
    /\ exc = [p \in procs |-> <<>>]
    /\ failedAt = [p \in procs |-> "none"]
    /\ calls = [p \in procs |-> <<>>]
    /\ device = [p \in procs |-> <<>>]
    /\ pipe = [p \in procs |-> <<>>]
    /\ result = [p \in procs |-> <<>>]
    /\ transcription = [p \in procs |-> <<>>]
    /\ clock = [p \in procs |-> <<>>]
    /\ timestamp = [p \in procs |-> <<>>]
    /\ output_path = [p \in procs |-> <<>>]
    /\ fs0 = [p \in procs |-> [dirKind |-> "absent", files |-> <<>>]]

(* --------------------------- control flow ----------------------------- *)

\* the directory made by the writing steps, after the pipeline has returned
OrderWriterMakesDir ==
    <<"isfile", "cuda", "pipeline", "invoke", "extract", "makedirs",
      "now", "open", "write", "confirm", "exit">>

\* the statements of process_hindi_audio and main's print, in program order
Order ==
    <<"isfile", "makedirs", "cuda", "pipeline", "invoke", "extract",
      "now", "open", "write", "confirm", "exit">>

StepAfter(step) == Order[1 + CHOOSE i \in 1..Len(Order) : Order[i] = step]

Goto(p, step) == pc' = [pc EXCEPT ![p] = step]

Called(p, step) == calls' = [calls EXCEPT ![p] = Append(@, step)]

Emit(p, lines) == out' = [out EXCEPT ![p] = @ \o lines]

\* raise e in the given step: control leaves the try block for main's handlers
RaiseAt(p, step, e) ==
    /\ exc' = [exc EXCEPT ![p] = <<e>>]
    /\ failedAt' = [failedAt EXCEPT ![p] = step]
    /\ Goto(p, "except")

Raise(p, e) == RaiseAt(p, pc[p], e)

(* ------------------------------ main ---------------------------------- *)

\* lines 69-77: parse_args, then process_hindi_audio(args.audio_file) in the try
Start(p, w) ==
    /\ pc[p] \in {"idle", "exit"}
    /\ runs < w.maxRuns
    /\ runs' = runs + 1
    /\ \E a \in w.args : arg' = [arg EXCEPT ![p] = a]
    /\ Goto(p, Order[1])
    /\ out' = [out EXCEPT ![p] = <<>>]
    /\ exitCode' = [exitCode EXCEPT ![p] = <<>>]
    /\ exc' = [exc EXCEPT ![p] = <<>>]
    /\ failedAt' = [failedAt EXCEPT ![p] = "none"]
    /\ calls' = [calls EXCEPT ![p] = <<>>]
    /\ device' = [device EXCEPT ![p] = <<>>]
    /\ pipe' = [pipe EXCEPT ![p] = <<>>]
    /\ result' = [result EXCEPT ![p] = <<>>]
    /\ transcription' = [transcription EXCEPT ![p] = <<>>]
    /\ clock' = [clock EXCEPT ![p] = <<>>]
    /\ timestamp' = [timestamp EXCEPT ![p] = <<>>]
    /\ output_path' = [output_path EXCEPT ![p] = <<>>]
    /\ fs0' = [fs0 EXCEPT ![p] = [dirKind |-> dirKind, files |-> files]]
    /\ UNCHANGED <<dirKind, files, written>>

\* lines 30-31
NotFoundMessage(path) == <<"The file '">> \o path \o <<"' does not exist.">>

CheckExists(p) ==
    /\ pc[p] = "isfile"
    /\ Called(p, "isfile")
    /\ IF IsFile(PathKind(arg[p]))
       THEN /\ Goto(p, StepAfter("isfile"))
            /\ UNCHANGED <<exc, failedAt>>
       ELSE Raise(p, Exc("FileNotFoundError", NotFoundMessage(arg[p])))
    /\ UNCHANGED <<fsVars, runs, written, arg, out, exitCode, locals, fs0>>

\* os.makedirs' default, exist_ok=False
ExistOkFalse == FALSE

\* line 34, the exist_ok argument
ExistOk == TRUE

ReadyLine == <<"Transcription folder 'transcribed' is ready.">>

\* lines 34-35: os.makedirs issues mkdir(2), which creates the directory or fails
Makedirs(p) ==
    /\ pc[p] = "makedirs"
    /\ Called(p, "makedirs")
    /\ IF dirKind = "absent"
       THEN /\ dirKind' = "dir"
            /\ Emit(p, <<ReadyLine>>)
            /\ Goto(p, StepAfter("makedirs"))
       ELSE /\ Goto(p, "makedirs_except")
            /\ UNCHANGED <<dirKind, out>>
    /\ UNCHANGED <<files, runs, written, arg, exitCode, exc, failedAt, locals, fs0>>

\* os.makedirs' handler of mkdir's OSError:
\*     if not exist_ok or not path.isdir(name): raise
MakedirsExcept(p) ==
    /\ pc[p] = "makedirs_except"
    /\ IF ~ExistOk \/ dirKind # "dir"
       THEN /\ RaiseAt(p, "makedirs",
                       Exc("FileExistsError",
                           <<"[Errno 17] File exists: 'transcribed'">>))
            /\ UNCHANGED out
       ELSE /\ Emit(p, <<ReadyLine>>)
            /\ Goto(p, StepAfter("makedirs"))
            /\ UNCHANGED <<exc, failedAt>>
    /\ UNCHANGED <<fsVars, runs, written, arg, exitCode, calls, locals, fs0>>

\* lines 38-40
SelectDevice(p, w) ==
    /\ pc[p] = "cuda"
    /\ Called(p, "cuda")
    /\ \E available \in w.cuda :
        LET d == IF available THEN "cuda" ELSE "cpu"
        IN  /\ device' = [device EXCEPT ![p] = <<d>>]
            /\ Emit(p, << <<"Loading model ", ModelId, "...">>,
                          <<"Using device: ", d>> >>)
    /\ Goto(p, StepAfter("cuda"))
    /\ UNCHANGED <<fsVars, runs, written, arg, exitCode, exc, failedAt,
                   pipe, result, transcription, clock, timestamp, output_path, fs0>>

\* lines 43-48
BuildPipeline(p, w) ==
    /\ pc[p] = "pipeline"
    /\ Called(p, "pipeline")
    /\ \/ /\ pipe' = [pipe EXCEPT ![p] =
                        << [task |-> "automatic-speech-recognition",
                            model |-> ModelId,
                            chunk_length_s |-> ChunkLengthS,
                            device |-> device[p][1]] >>]
          /\ Goto(p, StepAfter("pipeline"))
          /\ UNCHANGED <<exc, failedAt>>
       \/ /\ \E e \in w.errors : Raise(p, e)
          /\ UNCHANGED pipe
    /\ UNCHANGED <<fsVars, runs, written, arg, out, exitCode,
                   device, result, transcription, clock, timestamp, output_path, fs0>>

\* lines 51-52
Transcribe(p, w) ==
    /\ pc[p] = "invoke"
    /\ Called(p, "invoke")
    /\ Emit(p, << <<"Transcribing ">> \o arg[p] \o <<"...">> >>)
    /\ \/ /\ \E r \in w.results : result' = [result EXCEPT ![p] = <<r>>]
          /\ Goto(p, StepAfter("invoke"))
          /\ UNCHANGED <<exc, failedAt>>
       \/ /\ \E e \in w.errors : Raise(p, e)
          /\ UNCHANGED result
    /\ UNCHANGED <<fsVars, runs, written, arg, exitCode,
                   device, pipe, transcription, clock, timestamp, output_path, fs0>>

\* line 53: result["text"]
ExtractText(p) ==
    /\ pc[p] = "extract"
    /\ Called(p, "extract")
    /\ IF "text" \in DOMAIN result[p][1]
       THEN /\ transcription' = [transcription EXCEPT ![p] = <<result[p][1].text>>]
            /\ Goto(p, StepAfter("extract"))
            /\ UNCHANGED <<exc, failedAt>>
       ELSE /\ Raise(p, Exc("KeyError", <<"'text'">>))
            /\ UNCHANGED transcription
    /\ UNCHANGED <<fsVars, runs, written, arg, out, exitCode,
                   device, pipe, result, clock, timestamp, output_path, fs0>>

\* lines 56-59
NameOutput(p, w) ==
    /\ pc[p] = "now"
    /\ Called(p, "now")
    /\ \E t \in w.times :
        /\ clock' = [clock EXCEPT ![p] = <<t>>]
        /\ timestamp' = [timestamp EXCEPT ![p] = <<Strftime(t)>>]
        /\ output_path' = [output_path EXCEPT ![p] =
                <<OutputPath(OutputFilename(Stem(arg[p]), Strftime(t)))>>]
    /\ Goto(p, StepAfter("now"))
    /\ UNCHANGED <<fsVars, runs, written, arg, out, exitCode, exc, failedAt,
                   device, pipe, result, transcription, fs0>>

\* line 62: open(output_path, "w") creates the file or truncates it
OpenOutput(p, w) ==
    /\ pc[p] = "open"
    /\ Called(p, "open")
    /\ \/ /\ dirKind = "dir"
          /\ files' = CreateOrTruncate(files, output_path[p][1])
          /\ Goto(p, StepAfter("open"))
          /\ UNCHANGED <<exc, failedAt>>
       \/ /\ dirKind = "dir"
          /\ \E e \in w.openErrors : Raise(p, e)
          /\ UNCHANGED files
       \/ /\ dirKind # "dir"
          /\ Raise(p, Exc(IF dirKind = "absent" THEN "FileNotFoundError"
                                                ELSE "NotADirectoryError",
                          <<"[Errno] ">> \o output_path[p][1]))
          /\ UNCHANGED files
    /\ UNCHANGED <<dirKind, runs, written, arg, out, exitCode, locals, fs0>>

\* a write that refuses an empty text
WriteErrorsRejectEmpty(v) ==
    IF v.type # "str"
    THEN {Exc("TypeError", <<"write() argument must be str, not ", v.type>>)}
    ELSE IF ~Encodable(v.cps)
    THEN {Exc("UnicodeEncodeError",
              <<"'utf-8' codec can't encode character: surrogates not allowed">>)}
    ELSE IF v.cps = <<>>
    THEN {Exc("ValueError", <<"empty transcription">>)}
    ELSE {}

\* line 63: what f.write(v) raises, if anything
WriteErrors(v) ==
    IF v.type # "str"
    THEN {Exc("TypeError", <<"write() argument must be str, not ", v.type>>)}
    ELSE IF ~Encodable(v.cps)
    THEN {Exc("UnicodeEncodeError",
              <<"'utf-8' codec can't encode character: surrogates not allowed">>)}
    ELSE {}

\* lines 62-65: f.write(transcription), then the with block flushes and closes
WriteOutput(p, w) ==
    /\ pc[p] = "write"
    /\ Called(p, "write")
    /\ LET v == transcription[p][1] IN
        \/ /\ \E e \in WriteErrors(v) : Raise(p, e)
           /\ UNCHANGED files
        \/ /\ WriteErrors(v) = {}
           /\ files' = [files EXCEPT ![output_path[p][1]] = FileBytes(v.cps)]
           /\ Goto(p, StepAfter("write"))
           /\ UNCHANGED <<exc, failedAt>>
        \/ /\ WriteErrors(v) = {} /\ v.cps # <<>>
           /\ \E e \in w.flushErrors : Raise(p, e)
           /\ UNCHANGED files
    /\ UNCHANGED <<dirKind, runs, written, arg, out, exitCode, locals, fs0>>

\* line 78, then main returns
\* the check mark U+2713 is kept as one token
SavedLine(path) == <<"U+2713", " Transcription saved to: ">> \o path

Confirm(p, w) ==
    /\ pc[p] = "confirm"
    /\ Called(p, "confirm")
    /\ \/ /\ Emit(p, <<SavedLine(output_path[p][1])>>)
          /\ exitCode' = [exitCode EXCEPT ![p] = <<0>>]
          /\ written' = written \cup
                 {[stem |-> Stem(arg[p]), clock |-> clock[p][1],
                   path |-> output_path[p][1]]}
          /\ Goto(p, StepAfter("confirm"))
          /\ UNCHANGED <<exc, failedAt>>
       \/ /\ \E e \in w.printErrors : Raise(p, e)
          /\ UNCHANGED <<out, exitCode, written>>
    /\ UNCHANGED <<fsVars, runs, arg, locals, fs0>>

\* lines 79-84
NotFoundLine(e) == <<"Error: ">> \o e.desc

GenericLine(e) == <<"An error occurred during transcription: ">> \o e.desc

Handle(p) ==
    /\ pc[p] = "except"
    /\ LET e == exc[p][1] IN
        /\ IsInstance(e.type, "Exception")
        /\ Emit(p, << IF IsInstance(e.type, "FileNotFoundError")
                      THEN NotFoundLine(e) ELSE GenericLine(e) >>)
    /\ exitCode' = [exitCode EXCEPT ![p] = <<1>>]
    /\ Goto(p, "exit")
    /\ UNCHANGED <<fsVars, runs, written, arg, exc, failedAt, calls, locals, fs0>>

(* --------------------------- specifications --------------------------- *)

\* invocations one after the other, on every input
SeqProcs == {1}

Init == InitWith(SeqProcs, {"absent", "dir", "file"})

Next ==
    \E p \in SeqProcs :
        \/ Start(p, World)
        \/ CheckExists(p)
        \/ Makedirs(p)
        \/ MakedirsExcept(p)
        \/ SelectDevice(p, World)
        \/ BuildPipeline(p, World)
        \/ Transcribe(p, World)
        \/ ExtractText(p)
        \/ NameOutput(p, World)
        \/ OpenOutput(p, World)
        \/ WriteOutput(p, World)
        \/ Confirm(p, World)
        \/ Handle(p)

Spec == Init /\ [][Next]_vars

\* invocations at the same time in one working directory
RaceProcs == 1..NumProcs

InitRace == InitWith(RaceProcs, {"absent", "dir"})

NextRace ==
    \E p \in RaceProcs :
        \/ Start(p, RaceWorld)
        \/ CheckExists(p)
        \/ Makedirs(p)
        \/ MakedirsExcept(p)
        \/ SelectDevice(p, RaceWorld)
        \/ BuildPipeline(p, RaceWorld)
        \/ Transcribe(p, RaceWorld)
        \/ ExtractText(p)
        \/ NameOutput(p, RaceWorld)
        \/ OpenOutput(p, RaceWorld)
        \/ WriteOutput(p, RaceWorld)
        \/ Confirm(p, RaceWorld)
        \/ Handle(p)

SpecRace == InitRace /\ [][NextRace]_vars

(* ------------------------ reading the state back ---------------------- *)

Exited(p) == pc[p] = "exit"

Succeeded(p) == Exited(p) /\ exitCode[p] = <<0>>

Failed(p) == Exited(p) /\ exitCode[p] = <<1>>

IsPrefix(s, t) == Len(s) <= Len(t) /\ SubSeq(t, 1, Len(s)) = s

\* the number a run of decimal digits denotes
RECURSIVE DigitsValue(_)
DigitsValue(ds) ==
    IF ds = <<>> THEN 0
    ELSE 10 * DigitsValue(SubSeq(ds, 1, Len(ds) - 1))
            + (CHOOSE d \in 0..9 : DigitChars[d + 1] = Last(ds))

IsDigits(ds) == \A i \in 1..Len(ds) : \E d \in 0..9 : DigitChars[d + 1] = ds[i]

\* ts is the reading t written as YYYYMMDD-HHMMSS
IsStampOf(ts, t) ==
    /\ Len(ts) = 15
    /\ ts[9] = "-"
    /\ IsDigits(SubSeq(ts, 1, 8)) /\ IsDigits(SubSeq(ts, 10, 15))
    /\ DigitsValue(SubSeq(ts, 1, 4)) = t.year
    /\ DigitsValue(SubSeq(ts, 5, 6)) = t.month
    /\ DigitsValue(SubSeq(ts, 7, 8)) = t.day
    /\ DigitsValue(SubSeq(ts, 10, 11)) = t.hour
    /\ DigitsValue(SubSeq(ts, 12, 13)) = t.minute
    /\ DigitsValue(SubSeq(ts, 14, 15)) = t.second

\* the code points a UTF-8 byte sequence decodes to, read in binary mode
RECURSIVE Utf8Decode(_)
Utf8Decode(bs) ==
    IF bs = <<>> THEN <<>>
    ELSE LET b == bs[1] IN
         IF b < 128 THEN <<b>> \o Utf8Decode(SubSeq(bs, 2, Len(bs)))
         ELSE IF b < 224
         THEN <<(b - 192) * 64 + (bs[2] - 128)>> \o Utf8Decode(SubSeq(bs, 3, Len(bs)))
         ELSE IF b < 240
         THEN <<(b - 224) * 4096 + (bs[2] - 128) * 64 + (bs[3] - 128)>>
                  \o Utf8Decode(SubSeq(bs, 4, Len(bs)))
         ELSE <<(b - 240) * 262144 + (bs[2] - 128) * 4096
                    + (bs[3] - 128) * 64 + (bs[4] - 128)>>
                  \o Utf8Decode(SubSeq(bs, 5, Len(bs)))

\* path is transcribed/<stem>-<t as YYYYMMDD-HHMMSS>.txt
IsOutputPathOf(path, stem, t) ==
    /\ Len(path) = Len(stem) + 19
    /\ SubSeq(path, 1, 2) = <<"transcribed", "/">>
    /\ SubSeq(path, 3, Len(stem) + 2) = stem
    /\ path[Len(stem) + 3] = "-"
    /\ IsStampOf(SubSeq(path, Len(stem) + 4, Len(stem) + 18), t)
    /\ Last(path) = ".txt"

CallOrder ==
    <<"isfile", "makedirs", "cuda", "pipeline", "invoke", "extract",
      "now", "open", "write", "confirm">>

Before(p, a, b) ==
    \E i, j \in 1..Len(calls[p]) : i < j /\ calls[p][i] = a /\ calls[p][j] = b

Did(p, step) == \E i \in 1..Len(calls[p]) : calls[p][i] = step

(* -------------------------------- claims ------------------------------ *)

\* C1: an invocation whose path argument is not an existing regular file
\* (missing, or a directory) performs the existence check and nothing else:
\* transcribed/ and its files stay as they were, the device is not probed,
\* no pipeline is built or invoked; it prints one line, which holds the exact
\* path and says the file does not exist, and exits with code 1.
C1_NotFoundStopsFirst ==
    \A p \in Procs :
        (pc[p] # "idle" /\ PathKind(arg[p]) # "file") =>
            /\ IsPrefix(calls[p], <<"isfile">>)
            /\ dirKind = fs0[p].dirKind /\ files = fs0[p].files
            /\ device[p] = <<>> /\ pipe[p] = <<>> /\ result[p] = <<>>
            /\ Exited(p) =>
                /\ exitCode[p] = <<1>>
                /\ Len(out[p]) = 1
                /\ Contains(out[p][1], arg[p])
                /\ Contains(out[p][1], <<"The file '">> \o arg[p]
                                           \o <<"' does not exist.">>)

C1_Witness ==
    \E p \in Procs :
        /\ Failed(p) /\ arg[p] = ClipsDir
        /\ fs0[p].dirKind = "absent" /\ dirKind = "absent"

\* C2: an invocation in which no step raises, on an input with stem S, pipeline
\* text T and clock reading TS, ends with exit code 0, leaves at
\* transcribed/S-TS.txt, TS written YYYYMMDD-HHMMSS, a file whose bytes decode
\* to exactly T, and prints last the confirmation holding that path.
C2_SuccessWritesExactText ==
    \A p \in Procs :
        (Exited(p) /\ exc[p] = <<>>) =>
            \E path \in DOMAIN files :
                /\ exitCode[p] = <<0>>
                /\ IsOutputPathOf(path, Stem(arg[p]), clock[p][1])
                /\ "text" \in DOMAIN result[p][1]
                /\ result[p][1].text.type = "str"
                /\ Utf8Decode(files[path]) = result[p][1].text.cps
                /\ Last(out[p]) = <<"U+2713", " Transcription saved to: ">> \o path

C2_Witness ==
    \E p \in Procs :
        /\ Succeeded(p) /\ arg[p] = DatedWav
        /\ result[p][1] = TextResult(<<97, 10>>)
        /\ Stem(arg[p]) = <<"s","p","e","e","c","h","-","2","0","2","4","0",
                            "3","0","1","-","1","0","1","5","3","0",".","v","2">>

\* C3 as stated: every successful invocation adds exactly one name to
\* transcribed/ that was not there before and changes no earlier file.
C3_Original ==
    \A p \in Procs :
        Succeeded(p) =>
            /\ \E n \in DOMAIN files :
                  /\ n \notin DOMAIN fs0[p].files
                  /\ DOMAIN files = DOMAIN fs0[p].files \cup {n}
            /\ \A n \in DOMAIN fs0[p].files : files[n] = fs0[p].files[n]

\* C3 amended: a successful invocation leaves in transcribed/ the names that
\* were there plus its own output path, and changes no file but that one; it
\* adds exactly one new name when no file of that path existed before, and
\* otherwise adds none and overwrites that file.
C3_OneFileAtOutputPath ==
    \A p \in Procs :
        Succeeded(p) =>
            LET path == output_path[p][1] IN
            /\ IsOutputPathOf(path, Stem(arg[p]), clock[p][1])
            /\ DOMAIN files = DOMAIN fs0[p].files \cup {path}
            /\ \A n \in DOMAIN fs0[p].files \ {path} : files[n] = fs0[p].files[n]
            /\ path \notin DOMAIN fs0[p].files =>
                  Cardinality(DOMAIN files) = Cardinality(DOMAIN fs0[p].files) + 1
            /\ path \in DOMAIN fs0[p].files => DOMAIN files = DOMAIN fs0[p].files

C3_Witness ==
    \E p \in Procs :
        /\ Succeeded(p)
        /\ \E n \in DOMAIN fs0[p].files : n # output_path[p][1]
        /\ output_path[p][1] \notin DOMAIN fs0[p].files

\* C4 as stated: when building the pipeline, invoking it or reading the text
\* field raises, the invocation exits with code 1, its last line is the generic
\* message holding the error's description, and the write steps are not
\* reached, so the files of transcribed/ are as they were.
C4_PipelineErrorIsGeneric ==
    \A p \in Procs :
        (Exited(p) /\ failedAt[p] \in {"pipeline", "invoke", "extract"}) =>
            /\ exitCode[p] = <<1>>
            /\ Last(out[p]) = <<"An error occurred during transcription: ">>
                                  \o exc[p][1].desc
            /\ ~Did(p, "open") /\ ~Did(p, "write")
            /\ files = fs0[p].files

\* C5 as stated: an invocation that ends with exit code 1 has created,
\* truncated or modified no file of transcribed/.
C5_FailureLeavesFilesAlone ==
    \A p \in Procs : Failed(p) => files = fs0[p].files

\* C6 as stated: every invocation that fails exits with code 1; its last line
\* is the file-not-found message exactly when the path argument is not an
\* existing file, and the generic message holding the description otherwise.
C6_TwoTiers ==
    \A p \in Procs :
        (Exited(p) /\ exc[p] # <<>>) =>
            /\ exitCode[p] = <<1>>
            /\ IF PathKind(arg[p]) # "file"
               THEN Last(out[p]) = <<"Error: ">> \o exc[p][1].desc
               ELSE Last(out[p]) = <<"An error occurred during transcription: ">>
                                       \o exc[p][1].desc

\* C7: two successful invocations wrote the same path only if their input
\* stems are equal and their clock readings are the same second.
C7_OutputPathInjective ==
    \A a \in written : \A b \in written :
        a.path = b.path => (a.stem = b.stem /\ a.clock = b.clock)

C7_Witness ==
    \E a \in written : \E b \in written :
        /\ a.stem = b.stem /\ a.clock = Jan12 /\ b.clock = Nov02
        /\ a.path # b.path
        /\ {a.path, b.path} \subseteq DOMAIN files

\* C8: whatever the interleaving of invocations sharing a working directory in
\* which transcribed/ is absent or a directory, none fails in the directory
\* creation step, and once an invocation is past that step the directory exists.
C8_MakedirsNeverFails ==
    \A p \in Procs :
        /\ failedAt[p] # "makedirs"
        /\ (Did(p, "makedirs") /\ pc[p] \notin {"makedirs", "makedirs_except"})
              => dirKind = "dir"

C8_Witness ==
    \E p \in Procs : \E q \in Procs :
        /\ p # q
        /\ fs0[p].dirKind = "absent" /\ fs0[q].dirKind = "absent"
        /\ Did(p, "cuda") /\ Did(q, "cuda")

\* C9 as stated: the directory is made by the writing steps, so no filesystem
\* write, directory creation included, comes before the pipeline has been
\* invoked, and an invocation whose pipeline fails leaves an absent
\* transcribed/ absent.
C9_Original ==
    \A p \in Procs :
        /\ Did(p, "makedirs") => Before(p, "invoke", "makedirs")
        /\ (Exited(p) /\ failedAt[p] \in {"pipeline", "invoke"}
                /\ fs0[p].dirKind = "absent") => dirKind = "absent"

\* C9 amended: the steps run in the order existence check, directory
\* creation, device selection, pipeline construction, pipeline invocation,
\* text extraction, naming, open, write, confirmation. Directory creation
\* follows validation and precedes device selection; it is the only filesystem
\* write before the pipeline returns, so an invocation whose pipeline fails
\* leaves transcribed/ a directory (created if it was absent) and leaves the
\* files in it as they were.
C9_DirectoryMadeBeforePipeline ==
    \A p \in Procs :
        /\ IsPrefix(calls[p], CallOrder)
        /\ Did(p, "cuda") => dirKind = "dir"
        /\ ~Did(p, "open") => files = fs0[p].files
        /\ (Exited(p) /\ failedAt[p] \in {"pipeline", "invoke", "extract"}) =>
              (dirKind = "dir" /\ files = fs0[p].files)

C9_Witness ==
    \E p \in Procs :
        /\ Failed(p) /\ failedAt[p] = "invoke"
        /\ fs0[p].dirKind = "absent" /\ dirKind = "dir"

\* C10: when the pipeline returns the empty text, no step rejects it: the
\* invocation can fail only where the output file is opened or the
\* confirmation is printed, and otherwise it exits with code 0, the file at
\* transcribed/<stem>-<timestamp>.txt is empty and the last line printed is
\* the confirmation holding that path.
C10_EmptyTextIsSuccess ==
    \A p \in Procs :
        (Exited(p) /\ transcription[p] = <<PyStr(<<>>)>>) =>
            /\ failedAt[p] \in {"none", "open", "confirm"}
            /\ failedAt[p] = "none" =>
                /\ exitCode[p] = <<0>>
                /\ IsOutputPathOf(output_path[p][1], Stem(arg[p]), clock[p][1])
                /\ output_path[p][1] \in DOMAIN files
                /\ files[output_path[p][1]] = <<>>
                /\ Last(out[p]) = <<"U+2713", " Transcription saved to: ">>
                                      \o output_path[p][1]

C10_Witness ==
    \E p \in Procs :
        /\ Succeeded(p) /\ transcription[p] = <<PyStr(<<>>)>>
        /\ files[output_path[p][1]] = <<>>

====
